---- MODULE Spec2Model ----
(***************************************************************************)
(* Booking admission engine of back/server.ts over the PostgreSQL schema   *)
(* of back/migrations/001_init.sql.                                        *)
(*                                                                         *)
(* Every `await` of a handler is one step.  The database is modelled at    *)
(* READ COMMITTED: a statement reads the rows committed when it runs plus  *)
(* the writes of its own transaction; COMMIT publishes a transaction's     *)
(* writes at once and ends it, ROLLBACK discards them; a transaction-level *)
(* advisory lock is held from its grant to the end of the transaction.     *)
(* Dates of requests and rows are day numbers; the string order used by    *)
(* the handler and the date order used by the database are compared on ISO *)
(* dates by the overlap specification.                                      *)
(*                                                                         *)
(* The INSERT statements of server.ts name columns that 001_init.sql does  *)
(* not create.  The database therefore starts with one of two schemas:     *)
(* the tables exactly as the migration creates them, or the tables with    *)
(* the columns the statements name.                                         *)
(***************************************************************************)
EXTENDS Integers, FiniteSets, Sequences, TLC

(* ---------------- bounds ---------------- *)
NAdm == 2
NQry == 1
PoolMax == 2
MaxDate == 3
HashRange == 2

Adm == 1..NAdm
Qry == 1..NQry
Dates == 1..MaxDate

(* ---------------- fixed data of the database ---------------- *)
Properties == {"P1", "P2"}
Rooms == {1, 2, 3}
RoomProperty(r) == IF r = 3 THEN "P2" ELSE "P1"
ExistingCustomer == 100
SeedBookingId == 101

(* falsy values of a request field *)
NoProperty == ""
NoRoom == 0
NoDate == 0
NoCustomer == -1
InlineCustomer == 0

(* ---------------- schema ---------------- *)
Migration001 ==
  [ customers |-> {"id", "first_name", "last_name", "email", "phone", "created_at"},
    bookings  |-> {"id", "property_id", "room_id", "customer_id", "status",
                   "start_date", "end_date", "created_at", "updated_at"} ]

CustomerInsertColumns ==
  {"id", "first_name", "last_name", "email", "phone", "metadata"}

BookingInsertColumns ==
  {"id", "property_id", "room_id", "customer_id", "status", "start_date",
   "end_date", "total_amount", "currency", "created_at", "updated_at"}

(* the schema the statements of server.ts are written against *)
ServerSchema ==
  [ customers |-> Migration001.customers \cup CustomerInsertColumns,
    bookings  |-> Migration001.bookings \cup BookingInsertColumns ]

VARIABLES
  columns,    \* columns of the customers and bookings tables of the database
  customers,  \* committed customer ids
  bookings,   \* committed booking rows
  tx,         \* per admission: uncommitted writes of its transaction
  lock,       \* advisory lock key -> admission holding it, 0 when free
  poolBusy,   \* clients of the pool that are checked out
  pc,         \* per admission: position in the handler
  req,        \* per admission: request body
  result,     \* per admission: response
  fault,      \* per admission: "none", or how the storage failed one of its statements
  qpc,        \* per availability query: position in the handler
  qreq,       \* per availability query: query string
  qrooms,     \* per availability query: rows of its first read
  qresult,    \* per availability query: response
  grants,     \* admissions in the order the lock manager granted them their key
  cmp         \* one evaluation of the two overlap predicates on a pair of intervals

dbvars == <<columns, customers, bookings, tx, lock, poolBusy>>
avars == <<pc, req, result, fault>>
qvars == <<qpc, qreq, qrooms, qresult>>
vars == <<columns, customers, bookings, tx, lock, poolBusy, pc, req, result, fault,
          qpc, qreq, qrooms, qresult, grants, cmp>>

(* ---------------- pure helpers ---------------- *)

(* 'YYYY-MM-DD' as the sequence of its character codes: '0' is 48, '-' is 45 *)
IsoDate(y, m, d) ==
  << 48 + (y \div 1000), 48 + ((y \div 100) % 10), 48 + ((y \div 10) % 10), 48 + (y % 10), 45,
     48 + (m \div 10), 48 + (m % 10), 45, 48 + (d \div 10), 48 + (d % 10) >>

(* a < b on two JavaScript strings: the first differing code unit decides, *)
(* and a proper prefix is smaller                                           *)
StringLess(s, t) ==
  \/ Len(s) < Len(t) /\ \A j \in 1..Len(s) : s[j] = t[j]
  \/ \E i \in 1..Len(s) :
       /\ i <= Len(t)
       /\ s[i] < t[i]
       /\ \A j \in 1..(i - 1) : s[j] = t[j]

(* the value of a date column or of a parameter compared with one: the     *)
(* database reads the year, month and day of the text and orders dates by  *)
(* the calendar                                                             *)
ToDate(s) ==
  LET num(i, n) == IF n = 4
                     THEN (s[i] - 48) * 1000 + (s[i + 1] - 48) * 100 + (s[i + 2] - 48) * 10
                          + (s[i + 3] - 48)
                     ELSE (s[i] - 48) * 10 + (s[i + 1] - 48)
  IN  (num(1, 4) * 12 + (num(6, 2) - 1)) * 31 + (num(9, 2) - 1)

(* datesOverlap with closed intervals *)
datesOverlapClosed(startA, endA, startB, endB) ==
  ~StringLess(endB, startA) /\ ~StringLess(endA, startB)

(* server.ts datesOverlap: (startA < endB) && (endA > startB) on strings *)
datesOverlap(startA, endA, startB, endB) ==
  StringLess(startA, endB) /\ StringLess(startB, endA)

(* the predicate with closed intervals *)
SqlOverlapClosed(b, from, to) == ~(b.end_date < from \/ b.start_date > to)

(* WHERE NOT (end_date <= $from OR start_date >= $to) *)
SqlOverlap(b, from, to) == ~(b.end_date <= from \/ b.start_date >= to)

(* the status filter lets every status through *)
AnyStatus(b) == b.status \in {"confirmed", "hold", "cancelled"}

(* WHERE status IN ('confirmed','hold') *)
Active(b) == b.status \in {"confirmed", "hold"}

(* hashtext($1)::bigint, a hash of the room id with a bounded range *)
hashtext(room_id) == room_id % HashRange

(* rows returned by the conflict query of POST /bookings *)
ConflictRows(rows, room_id, start_date, end_date) ==
  {b \in rows : b.room_id = room_id /\ SqlOverlap(b, start_date, end_date) /\ Active(b)}

(* validation of POST /bookings *)
MissingFields(body) ==
  \/ body.property_id = NoProperty
  \/ body.room_id = NoRoom
  \/ body.start_date = NoDate
  \/ body.end_date = NoDate
  \/ body.customer = NoCustomer

(* the range check admits an empty window *)
RangeOkLoose(body) == body.start_date <= body.end_date

RangeOk(body) == body.start_date < body.end_date

(* uuidv4(): an id no other row carries *)
NewCustomerId(a) == a
NewBookingId(a) == a

(* customer id the booking row of admission a references *)
CustomerIdOf(a, body) ==
  IF body.customer = InlineCustomer THEN NewCustomerId(a) ELSE body.customer

(* the status is left to the default of the column *)
StatusDefault(body) == "hold"

(* const status = hold ? 'hold' : 'confirmed' *)
StatusOf(body) == IF body.hold THEN "hold" ELSE "confirmed"

BookingRow(a, body) ==
  [ id |-> NewBookingId(a), property_id |-> body.property_id, room_id |-> body.room_id,
    customer_id |-> CustomerIdOf(a, body), status |-> StatusOf(body),
    start_date |-> body.start_date, end_date |-> body.end_date ]

(* the INSERT INTO customers statement is accepted by the database *)
CustomerInsertOk(cols) == CustomerInsertColumns \subseteq cols.customers

(* the INSERT INTO bookings statement is accepted by the database: its    *)
(* columns exist and its three foreign keys reference existing rows       *)
BookingInsertOk(cols, row, visibleCustomers) ==
  /\ BookingInsertColumns \subseteq cols.bookings
  /\ row.property_id \in Properties
  /\ row.room_id \in Rooms
  /\ row.customer_id \in visibleCustomers

(* line 125: the body of the 201 response *)
ReplyBody(a, body) == [booking_id |-> NewBookingId(a), status |-> StatusOf(body)]

NoBody ==
  [ property_id |-> NoProperty, room_id |-> NoRoom, customer |-> NoCustomer,
    start_date |-> NoDate, end_date |-> NoDate, hold |-> FALSE ]

NoTx == [customers |-> {}, bookings |-> {}]

(* ---------------- POST /bookings ---------------- *)

(* lines 72-82: read the body, validate, ask the pool for a client *)
Post(a, body) ==
  /\ pc[a] = "idle"
  /\ req' = [req EXCEPT ![a] = body]
  /\ IF MissingFields(body)
       THEN /\ result' = [result EXCEPT ![a] = "MissingField"]
            /\ pc' = [pc EXCEPT ![a] = "done"]
       ELSE IF ~RangeOk(body)
         THEN /\ result' = [result EXCEPT ![a] = "InvalidRange"]
              /\ pc' = [pc EXCEPT ![a] = "done"]
         ELSE /\ result' = result
              /\ pc' = [pc EXCEPT ![a] = "connect"]
  /\ UNCHANGED <<dbvars, fault, qvars, grants, cmp>>

(* line 82: pool.connect() resolves once a client of the pool is free *)
Connect(a) ==
  /\ pc[a] = "connect"
  /\ poolBusy < PoolMax
  /\ poolBusy' = poolBusy + 1
  /\ pc' = [pc EXCEPT ![a] = "begin"]
  /\ UNCHANGED <<columns, customers, bookings, tx, lock, req, result, fault, qvars, grants, cmp>>

(* line 82: pool.connect() rejects; the handler throws outside its try *)
ConnectFail(a) ==
  /\ pc[a] = "connect"
  /\ fault' = [fault EXCEPT ![a] = "clean"]
  /\ result' = [result EXCEPT ![a] = "StorageFailure"]
  /\ pc' = [pc EXCEPT ![a] = "done"]
  /\ UNCHANGED <<dbvars, req, qvars, grants, cmp>>

(* line 84: BEGIN *)
Begin(a) ==
  /\ pc[a] = "begin"
  /\ tx' = [tx EXCEPT ![a] = NoTx]
  /\ pc' = [pc EXCEPT ![a] = "lock"]
  /\ UNCHANGED <<columns, customers, bookings, lock, poolBusy, req, result, fault, qvars, grants, cmp>>

(* the lock statement returns at once, whoever holds the key *)
AcquireLockNoWait(a) ==
  /\ pc[a] = "lock"
  /\ lock' = [lock EXCEPT ![hashtext(req[a].room_id)] = a]
  /\ grants' = Append(grants, a)
  /\ pc' = [pc EXCEPT ![a] = "check"]
  /\ UNCHANGED <<columns, customers, bookings, tx, poolBusy, req, result, fault, qvars, cmp>>

(* line 89: pg_advisory_xact_lock returns once no other transaction holds the key *)
AcquireLock(a) ==
  /\ pc[a] = "lock"
  /\ lock[hashtext(req[a].room_id)] \in {0, a}
  /\ lock' = [lock EXCEPT ![hashtext(req[a].room_id)] = a]
  /\ grants' = Append(grants, a)
  /\ pc' = [pc EXCEPT ![a] = "check"]
  /\ UNCHANGED <<columns, customers, bookings, tx, poolBusy, req, result, fault, qvars, cmp>>

(* the branch on the rows of the conflict query is never taken *)
ConflictCheckIgnore(a) ==
  /\ pc[a] = "check"
  /\ pc' = [pc EXCEPT ![a] = "customer"]
  /\ UNCHANGED <<dbvars, req, result, fault, qvars, grants, cmp>>

(* lines 92-102: the conflict query and the branch on its rows *)
ConflictCheck(a) ==
  /\ pc[a] = "check"
  /\ IF ConflictRows(bookings \cup tx[a].bookings, req[a].room_id,
                     req[a].start_date, req[a].end_date) # {}
       THEN pc' = [pc EXCEPT ![a] = "rollback"]
       ELSE pc' = [pc EXCEPT ![a] = "customer"]
  /\ UNCHANGED <<dbvars, req, result, fault, qvars, grants, cmp>>

(* the transaction of admission a ends: its advisory locks are released *)
ReleaseLocks(a) == [k \in DOMAIN lock |-> IF lock[k] = a THEN 0 ELSE lock[k]]

(* the conflict branch replies 409 without ROLLBACK *)
ConflictNoRollback(a) ==
  /\ pc[a] = "rollback"
  /\ result' = [result EXCEPT ![a] = "RoomUnavailable"]
  /\ pc' = [pc EXCEPT ![a] = "reply"]
  /\ UNCHANGED <<dbvars, req, fault, qvars, grants, cmp>>

(* lines 100-101 and 131: ROLLBACK, reply 409, client.release() *)
RollbackConflict(a) ==
  /\ pc[a] = "rollback"
  /\ tx' = [tx EXCEPT ![a] = NoTx]
  /\ lock' = ReleaseLocks(a)
  /\ result' = [result EXCEPT ![a] = "RoomUnavailable"]
  /\ pc' = [pc EXCEPT ![a] = "reply"]
  /\ UNCHANGED <<columns, customers, bookings, poolBusy, req, fault, qvars, grants, cmp>>

(* the customer insert runs outside the transaction and is committed at once *)
CustomerInsertAutocommit(a) ==
  /\ pc[a] = "customer"
  /\ IF req[a].customer # InlineCustomer
       THEN /\ pc' = [pc EXCEPT ![a] = "booking"]
            /\ customers' = customers
       ELSE IF CustomerInsertOk(columns)
         THEN /\ customers' = customers \cup {NewCustomerId(a)}
              /\ pc' = [pc EXCEPT ![a] = "booking"]
         ELSE /\ customers' = customers
              /\ pc' = [pc EXCEPT ![a] = "catch"]
  /\ UNCHANGED <<columns, bookings, tx, lock, poolBusy, req, result, fault, qvars, grants, cmp>>

(* the customer is inserted whether or not the body names one *)
CustomerInsertAlways(a) ==
  /\ pc[a] = "customer"
  /\ IF CustomerInsertOk(columns)
       THEN /\ tx' = [tx EXCEPT ![a].customers = @ \cup {NewCustomerId(a)}]
            /\ pc' = [pc EXCEPT ![a] = "booking"]
       ELSE /\ tx' = tx
            /\ pc' = [pc EXCEPT ![a] = "catch"]
  /\ UNCHANGED <<columns, customers, bookings, lock, poolBusy, req, result, fault, qvars, grants, cmp>>

(* lines 105-113: create the customer unless the body names one *)
CustomerInsert(a) ==
  /\ pc[a] = "customer"
  /\ IF req[a].customer # InlineCustomer
       THEN /\ pc' = [pc EXCEPT ![a] = "booking"]
            /\ tx' = tx
       ELSE IF CustomerInsertOk(columns)
         THEN /\ tx' = [tx EXCEPT ![a].customers = @ \cup {NewCustomerId(a)}]
              /\ pc' = [pc EXCEPT ![a] = "booking"]
         ELSE /\ tx' = tx
              /\ pc' = [pc EXCEPT ![a] = "catch"]
  /\ UNCHANGED <<columns, customers, bookings, lock, poolBusy, req, result, fault, qvars, grants, cmp>>

(* the lock is given up when the booking is inserted, before COMMIT *)
BookingInsertUnlock(a) ==
  /\ pc[a] = "booking"
  /\ lock' = ReleaseLocks(a)
  /\ IF BookingInsertOk(columns, BookingRow(a, req[a]), customers \cup tx[a].customers)
       THEN /\ tx' = [tx EXCEPT ![a].bookings = @ \cup {BookingRow(a, req[a])}]
            /\ pc' = [pc EXCEPT ![a] = "commit"]
       ELSE /\ tx' = tx
            /\ pc' = [pc EXCEPT ![a] = "catch"]
  /\ UNCHANGED <<columns, customers, bookings, poolBusy, req, result, fault, qvars, grants, cmp>>

(* lines 115-122: INSERT INTO bookings *)
BookingInsert(a) ==
  /\ pc[a] = "booking"
  /\ IF BookingInsertOk(columns, BookingRow(a, req[a]), customers \cup tx[a].customers)
       THEN /\ tx' = [tx EXCEPT ![a].bookings = @ \cup {BookingRow(a, req[a])}]
            /\ pc' = [pc EXCEPT ![a] = "commit"]
       ELSE /\ tx' = tx
            /\ pc' = [pc EXCEPT ![a] = "catch"]
  /\ UNCHANGED <<columns, customers, bookings, lock, poolBusy, req, result, fault, qvars, grants, cmp>>

(* lines 124-125: COMMIT publishes the transaction's rows and ends it *)
Commit(a) ==
  /\ pc[a] = "commit"
  /\ customers' = customers \cup tx[a].customers
  /\ bookings' = bookings \cup tx[a].bookings
  /\ tx' = [tx EXCEPT ![a] = NoTx]
  /\ lock' = ReleaseLocks(a)
  /\ result' = [result EXCEPT ![a] = "Committed"]
  /\ pc' = [pc EXCEPT ![a] = "reply"]
  /\ UNCHANGED <<columns, poolBusy, req, fault, qvars, grants, cmp>>

(* a statement of the transaction (BEGIN .. COMMIT, or the ROLLBACK of    *)
(* line 100) fails in the storage: control passes to the catch block.  A  *)
(* COMMIT that fails has published nothing.  fault records whether the    *)
(* transaction held uncommitted rows ("dirty")                             *)
StorageFault(a) ==
  /\ pc[a] \in {"begin", "lock", "check", "rollback", "customer", "booking", "commit"}
  /\ fault' = [fault EXCEPT ![a] = IF tx[a] = NoTx THEN "clean" ELSE "dirty"]
  /\ pc' = [pc EXCEPT ![a] = "catch"]
  /\ UNCHANGED <<dbvars, req, result, qvars, grants, cmp>>

(* the catch block replies 500 without ROLLBACK *)
CatchNoRollback(a) ==
  /\ pc[a] = "catch"
  /\ result' = [result EXCEPT ![a] = "StorageFailure"]
  /\ pc' = [pc EXCEPT ![a] = "reply"]
  /\ UNCHANGED <<dbvars, req, fault, qvars, grants, cmp>>

(* lines 126-129: ROLLBACK, log, reply 500 *)
Catch(a) ==
  /\ pc[a] = "catch"
  /\ tx' = [tx EXCEPT ![a] = NoTx]
  /\ lock' = ReleaseLocks(a)
  /\ result' = [result EXCEPT ![a] = "StorageFailure"]
  /\ pc' = [pc EXCEPT ![a] = "reply"]
  /\ UNCHANGED <<columns, customers, bookings, poolBusy, req, fault, qvars, grants, cmp>>

(* lines 101, 125, 129 and 131: the response is sent and the client released *)
Reply(a) ==
  /\ pc[a] = "reply"
  /\ poolBusy' = poolBusy - 1
  /\ pc' = [pc EXCEPT ![a] = "done"]
  /\ UNCHANGED <<columns, customers, bookings, tx, lock, req, result, fault, qvars, grants, cmp>>

(* ---------------- status transitions made outside the engine ---------------- *)

SetStatus(rows, b, st) == (rows \ {b}) \cup {[b EXCEPT !.status = st]}

(* hold -> confirmed *)
Confirm(b) ==
  /\ b \in bookings
  /\ b.status = "hold"
  /\ bookings' = SetStatus(bookings, b, "confirmed")
  /\ UNCHANGED <<columns, customers, tx, lock, poolBusy, avars, qvars, grants, cmp>>

(* any -> cancelled *)
Cancel(b) ==
  /\ b \in bookings
  /\ b.status # "cancelled"
  /\ bookings' = SetStatus(bookings, b, "cancelled")
  /\ UNCHANGED <<columns, customers, tx, lock, poolBusy, avars, qvars, grants, cmp>>

(* ---------------- GET /availability ---------------- *)

NoQuery == [propertyId |-> NoProperty, from |-> NoDate, to |-> NoDate]
NoAnswer == [code |-> "none", available |-> {}]

(* line 36 *)
MissingParams(q) == q.propertyId = NoProperty \/ q.from = NoDate \/ q.to = NoDate

(* lines 41-42: SELECT ... FROM rooms WHERE property_id = $1 *)
RoomsOf(propertyId) == {r \in Rooms : RoomProperty(r) = propertyId}

(* lines 45-55: room ids of the rows of the second read *)
BlockedRooms(rows, propertyId, from, to) ==
  {b.room_id : b \in {x \in rows : x.property_id = propertyId /\ SqlOverlap(x, from, to)
                                     /\ Active(x)}}

(* lines 34-38: read the query string, check that the three parameters are there *)
Get(q, params) ==
  /\ qpc[q] = "idle"
  /\ qreq' = [qreq EXCEPT ![q] = params]
  /\ IF MissingParams(params)
       THEN /\ qresult' = [qresult EXCEPT ![q] = [code |-> "MissingField", available |-> {}]]
            /\ qpc' = [qpc EXCEPT ![q] = "done"]
       ELSE /\ qresult' = qresult
            /\ qpc' = [qpc EXCEPT ![q] = "rooms"]
  /\ UNCHANGED <<dbvars, avars, grants, cmp, qrooms>>

(* lines 41-42: pool.query takes a free client, reads the rooms, releases it *)
ReadRooms(q) ==
  /\ qpc[q] = "rooms"
  /\ poolBusy < PoolMax
  /\ qrooms' = [qrooms EXCEPT ![q] = RoomsOf(qreq[q].propertyId)]
  /\ qpc' = [qpc EXCEPT ![q] = "bookings"]
  /\ UNCHANGED <<dbvars, avars, grants, cmp, qreq, qresult>>

(* lines 45-58: pool.query reads the blocking bookings; filter and reply *)
ReadBookings(q) ==
  /\ qpc[q] = "bookings"
  /\ poolBusy < PoolMax
  /\ qresult' = [qresult EXCEPT ![q] =
        [code |-> "Ok",
         available |-> qrooms[q] \ BlockedRooms(bookings, qreq[q].propertyId,
                                                qreq[q].from, qreq[q].to)]]
  /\ qpc' = [qpc EXCEPT ![q] = "done"]
  /\ UNCHANGED <<dbvars, avars, grants, cmp, qreq, qrooms>>

(* one of the two pool.query calls rejects: the handler throws *)
QueryFault(q) ==
  /\ qpc[q] \in {"rooms", "bookings"}
  /\ qresult' = [qresult EXCEPT ![q] = [code |-> "StorageFailure", available |-> {}]]
  /\ qpc' = [qpc EXCEPT ![q] = "done"]
  /\ UNCHANGED <<dbvars, avars, grants, cmp, qreq, qrooms>>

(* ---------------- the two overlap predicates ---------------- *)

NoInterval == [start |-> <<>>, end |-> <<>>]
NoComparison ==
  [ a |-> NoInterval, b |-> NoInterval, done |-> FALSE,
    js |-> FALSE, jsRev |-> FALSE, sql |-> FALSE, sqlRev |-> FALSE ]

(* the SQL predicate on a row with the dates of interval a and the window b *)
SqlOverlapOf(a, b) ==
  SqlOverlap([start_date |-> ToDate(a.start), end_date |-> ToDate(a.end)],
             ToDate(b.start), ToDate(b.end))

(* lines 14-17 and 48, 95: both predicates on intervals a and b, in both   *)
(* argument orders                                                          *)
Compare ==
  /\ cmp # NoComparison
  /\ ~cmp.done
  /\ cmp' = [cmp EXCEPT !.done = TRUE,
                         !.js = datesOverlap(cmp.a.start, cmp.a.end, cmp.b.start, cmp.b.end),
                         !.jsRev = datesOverlap(cmp.b.start, cmp.b.end, cmp.a.start, cmp.a.end),
                         !.sql = SqlOverlapOf(cmp.a, cmp.b),
                         !.sqlRev = SqlOverlapOf(cmp.b, cmp.a)]
  /\ UNCHANGED <<dbvars, avars, qvars, grants>>

(* ---------------- inputs ---------------- *)

(* ISO dates around the changes of the day, month and year digits *)
CalendarDays ==
  { IsoDate(2025, 9, 9), IsoDate(2025, 9, 10), IsoDate(2025, 9, 30), IsoDate(2025, 10, 1),
    IsoDate(2025, 12, 31), IsoDate(2026, 1, 1) }

(* pairs of dates, the empty and the reversed ones included *)
Intervals == [start : CalendarDays, end : CalendarDays]

(* bodies with every required field present *)
CompleteBodies ==
  [ property_id : Properties, room_id : Rooms, customer : {InlineCustomer, ExistingCustomer},
    start_date : Dates, end_date : Dates, hold : BOOLEAN ]

(* the body names the room's own property, carries the customer inline and *)
(* sets no hold flag                                                         *)
Plain(b) ==
  b.property_id = RoomProperty(b.room_id) /\ b.customer = InlineCustomer /\ ~b.hold

(* plain bodies on room 1 whose window starts on the first day *)
ReferenceBodies ==
  { b \in CompleteBodies : Plain(b) /\ b.room_id = 1 /\ b.start_date = 1 /\ b.end_date <= 2 }

(* bodies with one required field absent *)
IncompleteBodies ==
  UNION { { [b EXCEPT !.property_id = NoProperty], [b EXCEPT !.room_id = NoRoom],
            [b EXCEPT !.customer = NoCustomer], [b EXCEPT !.start_date = NoDate],
            [b EXCEPT !.end_date = NoDate] } : b \in ReferenceBodies }

(* requests of the concurrent admissions: a plain body for every room and  *)
(* valid window; on room 1 also the bodies with an existing customer or    *)
(* the hold flag, and the plain bodies with start_date >= end_date; and    *)
(* the bodies with a missing field                                          *)
Bodies ==
  { b \in CompleteBodies :
      /\ b.property_id = RoomProperty(b.room_id)
      /\ Plain(b) \/ b.room_id = 1
      /\ b.start_date < b.end_date \/ (Plain(b) /\ b.room_id = 1) }
  \cup IncompleteBodies

(* requests of the admissions that run beside availability queries: a      *)
(* window on room 1 that ends on the last day, under the room's own or     *)
(* under another property                                                   *)
QueryBodies ==
  { b \in CompleteBodies :
      b.room_id = 1 /\ b.customer = InlineCustomer /\ ~b.hold /\ b.end_date = MaxDate
        /\ b.start_date < b.end_date }

(* query strings: every window on property P1, one window on P2, and the *)
(* strings with a missing parameter                                        *)
Queries ==
  [propertyId : {"P1"}, from : Dates, to : Dates]
  \cup { [propertyId |-> "P2", from |-> 1, to |-> MaxDate],
         [propertyId |-> NoProperty, from |-> 1, to |-> MaxDate],
         [propertyId |-> "P1", from |-> NoDate, to |-> MaxDate],
         [propertyId |-> "P1", from |-> 1, to |-> NoDate] }

(* the end-to-end scenario on room 1 of property P1; its dates are the days *)
(* of September 2025                                                        *)
ScenarioSeed ==
  [ id |-> SeedBookingId, property_id |-> "P1", room_id |-> 1, customer_id |-> ExistingCustomer,
    status |-> "confirmed", start_date |-> 10, end_date |-> 12 ]

AdmitTouching ==
  [ property_id |-> "P1", room_id |-> 1, customer |-> InlineCustomer,
    start_date |-> 12, end_date |-> 14, hold |-> FALSE ]

AdmitOverlapping ==
  [ property_id |-> "P1", room_id |-> 1, customer |-> InlineCustomer,
    start_date |-> 9, end_date |-> 11, hold |-> FALSE ]

QueryAcross == [propertyId |-> "P1", from |-> 11, to |-> 13]
QueryAfter == [propertyId |-> "P1", from |-> 12, to |-> 20]

(* the first request admits the touching window, the later ones the        *)
(* overlapping one                                                          *)
ScenarioBody(a) == IF a = 1 THEN AdmitTouching ELSE AdmitOverlapping

(* a booking made before the server started *)
SeedBooking ==
  [ id |-> SeedBookingId, property_id |-> "P1", room_id |-> 1, customer_id |-> ExistingCustomer,
    status |-> "hold", start_date |-> 1, end_date |-> 2 ]

(* ---------------- specification ---------------- *)

Init ==
  /\ columns \in {Migration001, ServerSchema}
  /\ customers = {ExistingCustomer}
  /\ bookings \in {{}, {SeedBooking}}
  /\ tx = [a \in Adm |-> NoTx]
  /\ lock = [k \in 0..(HashRange - 1) |-> 0]
  /\ poolBusy = 0
  /\ pc = [a \in Adm |-> "idle"]
  /\ req = [a \in Adm |-> NoBody]
  /\ result = [a \in Adm |-> "none"]
  /\ fault = [a \in Adm |-> "none"]
  /\ qpc = [q \in Qry |-> "idle"]
  /\ qreq = [q \in Qry |-> NoQuery]
  /\ qrooms = [q \in Qry |-> {}]
  /\ qresult = [q \in Qry |-> NoAnswer]
  /\ grants = <<>>
  /\ cmp = NoComparison

(* the steps of POST /bookings after the body was read *)
AdmissionSteps ==
  \/ \E a \in Adm : Connect(a)
  \/ \E a \in Adm : ConnectFail(a)
  \/ \E a \in Adm : Begin(a)
  \/ \E a \in Adm : AcquireLock(a)
  \/ \E a \in Adm : ConflictCheck(a)
  \/ \E a \in Adm : RollbackConflict(a)
  \/ \E a \in Adm : CustomerInsert(a)
  \/ \E a \in Adm : BookingInsert(a)
  \/ \E a \in Adm : Commit(a)
  \/ \E a \in Adm : StorageFault(a)
  \/ \E a \in Adm : Catch(a)
  \/ \E a \in Adm : Reply(a)

(* the steps of POST /bookings for requests whose bodies are drawn from B *)
AdmissionNext(B) ==
  \/ \E a \in Adm, body \in B : Post(a, body)
  \/ AdmissionSteps

StatusNext ==
  \/ \E b \in bookings : Confirm(b)
  \/ \E b \in bookings : Cancel(b)

(* the steps of GET /availability after the query string was read *)
QuerySteps ==
  \/ \E q \in Qry : ReadRooms(q)
  \/ \E q \in Qry : ReadBookings(q)
  \/ \E q \in Qry : QueryFault(q)

QueryNext ==
  \/ \E q \in Qry, params \in Queries : Get(q, params)
  \/ QuerySteps

(* concurrent admissions and external status changes *)
Next == AdmissionNext(Bodies) \/ StatusNext

Spec == Init /\ [][Next]_vars

(* the steps of the handler that the event loop and the database run to   *)
(* completion once they are possible                                       *)
Progress(a) ==
  \/ Begin(a) \/ ConflictCheck(a) \/ RollbackConflict(a) \/ CustomerInsert(a)
  \/ BookingInsert(a) \/ Commit(a) \/ Catch(a) \/ Reply(a)

(* fair scheduling: a handler that can continue does; the pool hands out  *)
(* clients and the lock manager grants a key in the order of the requests, *)
(* so a waiter is not passed over forever.  Requests, storage failures and *)
(* status changes need not happen.                                          *)
Fairness ==
  \A a \in Adm :
    WF_vars(Progress(a)) /\ SF_vars(Connect(a)) /\ SF_vars(AcquireLock(a))

(* requests of the admissions whose progress is followed: plain bodies on *)
(* rooms 1 and 3, which share a lock key, for windows ending on the last   *)
(* day                                                                      *)
LockBodies ==
  { b \in CompleteBodies :
      Plain(b) /\ b.room_id \in {1, 3} /\ b.start_date < b.end_date /\ b.end_date = MaxDate }

NextL == AdmissionNext(LockBodies) \/ StatusNext

FairSpec == Init /\ [][NextL]_vars /\ Fairness

(* availability queries beside admissions and external status changes *)
NextQ == AdmissionNext(QueryBodies) \/ StatusNext \/ QueryNext

SpecQ == Init /\ [][NextQ]_vars

(* the end-to-end scenario: each request is sent when the one before it    *)
(* has been answered, the availability query after the admissions          *)
ScenarioPost(a) ==
  /\ \A o \in Adm : o < a => pc[o] = "done"
  /\ Post(a, ScenarioBody(a))

ScenarioGet(q, params) ==
  /\ \A a \in Adm : pc[a] = "done"
  /\ Get(q, params)

InitE ==
  /\ columns \in {Migration001, ServerSchema}
  /\ customers = {ExistingCustomer}
  /\ bookings = {ScenarioSeed}
  /\ tx = [a \in Adm |-> NoTx]
  /\ lock = [k \in 0..(HashRange - 1) |-> 0]
  /\ poolBusy = 0
  /\ pc = [a \in Adm |-> "idle"]
  /\ req = [a \in Adm |-> NoBody]
  /\ result = [a \in Adm |-> "none"]
  /\ fault = [a \in Adm |-> "none"]
  /\ qpc = [q \in Qry |-> "idle"]
  /\ qreq = [q \in Qry |-> NoQuery]
  /\ qrooms = [q \in Qry |-> {}]
  /\ qresult = [q \in Qry |-> NoAnswer]
  /\ grants = <<>>
  /\ cmp = NoComparison

NextE ==
  \/ \E a \in Adm : ScenarioPost(a)
  \/ AdmissionSteps
  \/ \E q \in Qry, params \in {QueryAcross, QueryAfter} : ScenarioGet(q, params)
  \/ QuerySteps

SpecE == InitE /\ [][NextE]_vars

(* the overlap predicates applied to one pair of intervals *)
InitO ==
  /\ columns = Migration001
  /\ customers = {ExistingCustomer}
  /\ bookings = {}
  /\ tx = [a \in Adm |-> NoTx]
  /\ lock = [k \in 0..(HashRange - 1) |-> 0]
  /\ poolBusy = 0
  /\ pc = [a \in Adm |-> "idle"]
  /\ req = [a \in Adm |-> NoBody]
  /\ result = [a \in Adm |-> "none"]
  /\ fault = [a \in Adm |-> "none"]
  /\ qpc = [q \in Qry |-> "idle"]
  /\ qreq = [q \in Qry |-> NoQuery]
  /\ qrooms = [q \in Qry |-> {}]
  /\ qresult = [q \in Qry |-> NoAnswer]
  /\ grants = <<>>
  /\ cmp \in { [NoComparison EXCEPT !.a = x, !.b = y] : x \in Intervals, y \in Intervals }

NextO == Compare

SpecO == InitO /\ [][NextO]_vars

(* ======================= properties ======================= *)

(* the nights [start_date, end_date) of a booking or a window *)
Nights(s, e) == {d \in 0..(MaxDate + 1) : s <= d /\ d < e}
Intersect(s1, e1, s2, e2) == Nights(s1, e1) \cap Nights(s2, e2) # {}

Failures == {"MissingField", "InvalidRange", "RoomUnavailable", "StorageFailure"}
AllDone == \A a \in Adm : pc[a] = "done"
InFlight(a) == pc[a] \in {"begin", "lock", "check", "rollback", "customer", "booking",
                          "commit", "catch", "reply"}
MadeBy(a) == {b \in bookings : b.id = NewBookingId(a)}

(* C1: for each room, the committed bookings with status hold or confirmed *)
(* are pairwise non-overlapping as half-open date intervals; cancelled     *)
(* bookings are not counted.                                                *)
C1_ActiveBookingsDisjoint ==
  \A b1 \in bookings, b2 \in bookings :
    ( /\ b1.id # b2.id
      /\ b1.room_id = b2.room_id
      /\ b1.status \in {"hold", "confirmed"}
      /\ b2.status \in {"hold", "confirmed"} )
    => ~Intersect(b1.start_date, b1.end_date, b2.start_date, b2.end_date)

(* two admissions have committed active bookings on one room while a       *)
(* cancelled booking overlaps one of them                                   *)
C1_Witness ==
  \E b1 \in bookings, b2 \in bookings, b3 \in bookings :
    /\ b1.id \in Adm /\ b2.id \in Adm /\ b1.id # b2.id
    /\ b1.room_id = b2.room_id /\ b3.room_id = b1.room_id
    /\ b1.status \in {"hold", "confirmed"} /\ b2.status \in {"hold", "confirmed"}
    /\ b3.status = "cancelled"
    /\ Intersect(b1.start_date, b1.end_date, b3.start_date, b3.end_date)

(* a request that passes validation and names existing rows *)
ValidRequest(b) ==
  /\ b.property_id \in Properties
  /\ b.room_id \in Rooms
  /\ b.customer \in {InlineCustomer, ExistingCustomer}
  /\ b.start_date \in Dates /\ b.end_date \in Dates
  /\ b.start_date < b.end_date

(* no booking made before the admissions lies on the room and dates of a *)
NoEarlierBooking(a) ==
  \A b \in bookings :
    (b.id \notin Adm /\ b.room_id = req[a].room_id)
    => ~Intersect(b.start_date, b.end_date, req[a].start_date, req[a].end_date)

(* every admission has returned, the storage failed no statement, and no *)
(* booking an admission made was cancelled meanwhile                      *)
QuietRun ==
  /\ AllDone
  /\ \A a \in Adm : ValidRequest(req[a]) /\ NoEarlierBooking(a) /\ fault[a] = "none"
  /\ \A b \in bookings : b.id \in Adm => b.status # "cancelled"

SameRoom == \A a1 \in Adm, a2 \in Adm : req[a1].room_id = req[a2].room_id

PairwiseOverlapping ==
  \A a1 \in Adm, a2 \in Adm :
    Intersect(req[a1].start_date, req[a1].end_date, req[a2].start_date, req[a2].end_date)

PairwiseDisjoint ==
  \A a1 \in Adm, a2 \in Adm :
    a1 # a2 =>
      ~Intersect(req[a1].start_date, req[a1].end_date, req[a2].start_date, req[a2].end_date)

(* C2: of N valid admissions on one room with pairwise overlapping windows *)
(* and no earlier booking on those dates, exactly one commits and each of  *)
(* the others fails with RoomUnavailable.                                   *)
C2_ExactlyOneCommits ==
  (QuietRun /\ SameRoom /\ PairwiseOverlapping)
  => \E a \in Adm :
       /\ result[a] = "Committed"
       /\ \A o \in Adm \ {a} : result[o] = "RoomUnavailable"

(* C3: N valid admissions on one room with pairwise disjoint windows and   *)
(* no earlier booking on those dates all commit and each leaves a booking. *)
C3_AllDisjointCommit ==
  (QuietRun /\ SameRoom /\ PairwiseDisjoint)
  => \A a \in Adm : result[a] = "Committed" /\ MadeBy(a) # {}

(* C4: an admission is never made to wait by admissions on another room:  *)
(* when it waits for its lock and no admission on its own room holds the   *)
(* key, the key is free; when it waits for a client and no admission on    *)
(* its own room holds one, the pool has a free client.                      *)
C4_NoWaitOnOtherRooms ==
  \A a \in Adm :
    /\ ( /\ pc[a] = "lock"
         /\ \A o \in Adm \ {a} :
              req[o].room_id = req[a].room_id => lock[hashtext(req[a].room_id)] # o )
       => lock[hashtext(req[a].room_id)] \in {0, a}
    /\ ( /\ pc[a] = "connect"
         /\ \A o \in Adm \ {a} : req[o].room_id = req[a].room_id => ~InFlight(o) )
       => poolBusy < PoolMax

(* the rows an admission may add: its booking and its inline customer *)
RowsOf(a, bs, cs) == {b \in bs : b.id = NewBookingId(a)} \cup (cs \cap {NewCustomerId(a)})

(* C6: an admission that ends with InvalidRange, MissingField,             *)
(* RoomUnavailable or StorageFailure leaves no residual state: none of its *)
(* steps changes the committed booking and customer rows, and once it has  *)
(* failed no row of it is committed or pending in its transaction.         *)
C6_FailedAdmissionLeavesNothing ==
  [][ \A a \in Adm :
        /\ (pc'[a] # pc[a] /\ result'[a] # "Committed")
             => (bookings' = bookings /\ customers' = customers)
        /\ result'[a] \in Failures
             => (RowsOf(a, bookings', customers') = {} /\ tx'[a] = NoTx) ]_vars

(* an admission has returned StorageFailure after its transaction had      *)
(* inserted the customer, and another one RoomUnavailable                   *)
C6_Witness ==
  \E a \in Adm, o \in Adm :
    /\ pc[a] = "done" /\ result[a] = "StorageFailure" /\ fault[a] = "dirty"
    /\ req[a].customer = InlineCustomer
    /\ pc[o] = "done" /\ result[o] = "RoomUnavailable"

(* C7: the customer and the booking of an admission become visible         *)
(* together: no committed customer of an admission lacks its committed     *)
(* booking, no committed booking lacks its customer, and from the conflict *)
(* check to COMMIT the committed rows still hold no active booking that    *)
(* overlaps the window on the room.                                         *)
C7_AtomicVisibility ==
  /\ \A a \in Adm :
       NewCustomerId(a) \in customers
         => \E b \in bookings : b.id = NewBookingId(a) /\ b.customer_id = NewCustomerId(a)
  /\ \A b \in bookings : b.customer_id \in customers
  /\ \A a \in Adm :
       pc[a] \in {"customer", "booking", "commit"}
         => \A b \in bookings :
              (b.room_id = req[a].room_id /\ b.status \in {"hold", "confirmed"})
                => ~Intersect(b.start_date, b.end_date, req[a].start_date, req[a].end_date)

(* one admission has committed its customer and booking while another      *)
(* holds an inserted customer that is not yet committed                     *)
C7_Witness ==
  \E a \in Adm, o \in Adm :
    /\ NewCustomerId(a) \in customers /\ MadeBy(a) # {}
    /\ NewCustomerId(o) \in tx[o].customers /\ NewCustomerId(o) \notin customers

(* every required field of the body is there *)
AllFieldsPresent(b) ==
  /\ b.property_id \in Properties /\ b.room_id \in Rooms /\ b.customer # NoCustomer
  /\ b.start_date \in Dates /\ b.end_date \in Dates

(* C8: an admission with all fields present whose window has start_date >= *)
(* end_date fails with InvalidRange, and an admission with a missing       *)
(* required field fails with MissingField, in the step that reads the body *)
(* and before any client is taken from the pool, any lock requested or any  *)
(* row written.                                                             *)
C8_ValidationBeforeStorage ==
  [][ \A a \in Adm :
        (pc[a] = "idle" /\ pc'[a] # "idle")
          => /\ (AllFieldsPresent(req'[a]) /\ req'[a].start_date >= req'[a].end_date)
                  => (pc'[a] = "done" /\ result'[a] = "InvalidRange")
             /\ ~AllFieldsPresent(req'[a])
                  => (pc'[a] = "done" /\ result'[a] = "MissingField")
             /\ pc'[a] = "done"
                  => ( /\ poolBusy' = poolBusy /\ lock' = lock /\ tx' = tx
                       /\ bookings' = bookings /\ customers' = customers ) ]_vars

(* one admission was rejected for its range and another for a missing field *)
C8_Witness ==
  \E a \in Adm, o \in Adm :
    /\ pc[a] = "done" /\ result[a] = "InvalidRange"
    /\ req[a].start_date >= req[a].end_date
    /\ pc[o] = "done" /\ result[o] = "MissingField"

(* C5: the availability query never returns a room that has a hold or      *)
(* confirmed booking overlapping [from, to) among the committed bookings   *)
(* its second read runs on.                                                 *)
C5_NoBookedRoomListed ==
  [][ \A q \in Qry :
        (qpc[q] = "bookings" /\ qpc'[q] = "done" /\ qresult'[q].code = "Ok")
          => \A r \in qresult'[q].available :
               \A b \in bookings :
                 (b.room_id = r /\ b.status \in {"hold", "confirmed"})
                   => ~Intersect(b.start_date, b.end_date, qreq[q].from, qreq[q].to) ]_vars

(* C9: an availability query with from >= to fails with InvalidRange when  *)
(* its query string is read and returns no availability list.               *)
C9_QueryRangeValidated ==
  \A q \in Qry :
    ( /\ qpc[q] # "idle"
      /\ qreq[q].propertyId \in Properties
      /\ qreq[q].from \in Dates /\ qreq[q].to \in Dates
      /\ qreq[q].from >= qreq[q].to )
    => (qpc[q] = "done" /\ qresult[q].code = "InvalidRange")

HoldsLock(a) == \E k \in DOMAIN lock : lock[k] = a
Responded(a) == pc[a] = "done"

(* C10: the lock is released on every exit path.  An admission that has    *)
(* returned its response holds no lock, and the clients checked out are    *)
(* those of the admissions still in their handler; an admission that       *)
(* holds the lock eventually returns with the lock released; an admission  *)
(* that waits for the lock eventually holds it, unless the storage fails   *)
(* its lock statement.                                                      *)
C10_LockAlwaysReleased ==
  /\ [](\A a \in Adm : Responded(a) => ~HoldsLock(a))
  /\ [](poolBusy = Cardinality({a \in Adm : InFlight(a)}))
  /\ \A a \in Adm : HoldsLock(a) ~> (Responded(a) /\ ~HoldsLock(a))
  /\ \A a \in Adm : (pc[a] = "lock") ~> (HoldsLock(a) \/ fault[a] # "none")

(* an admission was rejected under the lock and has returned; another one  *)
(* now holds the same key                                                    *)
C10_Witness ==
  \E a \in Adm, o \in Adm :
    /\ Responded(a) /\ result[a] = "RoomUnavailable"
    /\ hashtext(req[o].room_id) = hashtext(req[a].room_id)
    /\ lock[hashtext(req[o].room_id)] = o

(* C11: an availability query never blocks on admissions: whatever the     *)
(* admissions in flight hold or wait for, a query that is about to run one *)
(* of its two reads can run it at once.                                     *)
C11_QueryNeverBlocks ==
  \A q \in Qry :
    /\ qpc[q] = "rooms" => ENABLED ReadRooms(q)
    /\ qpc[q] = "bookings" => ENABLED ReadBookings(q)

C13_OverlapPredicatesAgree ==
  cmp.done =>
    /\ cmp.js = cmp.sql
    /\ cmp.jsRev = cmp.js
    /\ cmp.sqlRev = cmp.sql
    /\ (cmp.a.end = cmp.b.start \/ cmp.b.end = cmp.a.start) => (~cmp.js /\ ~cmp.sql)

(* two intervals of at least one night that touch across the change of the *)
(* month have been compared                                                  *)
C13_Witness ==
  /\ cmp.done
  /\ cmp.a.end = cmp.b.start
  /\ cmp.a.end = IsoDate(2025, 10, 1)
  /\ ToDate(cmp.a.start) < ToDate(cmp.a.end)
  /\ ToDate(cmp.b.start) < ToDate(cmp.b.end)
  /\ ~cmp.js /\ ~cmp.sql

Range(s) == {s[i] : i \in DOMAIN s}

(* admission a was granted its lock and its transaction has not ended *)
UnderLock(a) ==
  /\ a \in Range(grants)
  /\ pc[a] \in {"check", "rollback", "customer", "booking", "commit", "catch"}

(* C14: mutual exclusion per room: at most one admission for a room id is  *)
(* between the grant of its lock and its COMMIT or ROLLBACK, so an         *)
(* admission is at or past its conflict check only while no other          *)
(* admission for the same room is.                                          *)
C14_OneAdmissionPerRoom ==
  \A a \in Adm, o \in Adm :
    (a # o /\ req[a].room_id = req[o].room_id) => ~(UnderLock(a) /\ UnderLock(o))

(* one admission has inserted its booking and not yet committed while      *)
(* another one for the same room waits for the lock                         *)
C14_Witness ==
  \E a \in Adm, o \in Adm :
    /\ a # o /\ req[a].room_id = req[o].room_id
    /\ UnderLock(a) /\ pc[a] = "commit"
    /\ pc[o] = "lock" /\ ~UnderLock(o)

(* no status was changed from outside: each committed row is as inserted *)
Untouched ==
  \A b \in bookings : b = SeedBooking \/ \E a \in Adm : b = BookingRow(a, req[a])

(* the response and the committed rows of admission a run alone against    *)
(* the committed rows; a storage failure of the run is kept                 *)
RunAlone(a, rows) ==
  IF fault[a] # "none"
    THEN [result |-> "StorageFailure", rows |-> rows]
    ELSE IF ConflictRows(rows, req[a].room_id, req[a].start_date, req[a].end_date) # {}
      THEN [result |-> "RoomUnavailable", rows |-> rows]
      ELSE IF /\ req[a].customer = InlineCustomer => CustomerInsertOk(columns)
              /\ BookingInsertOk(columns, BookingRow(a, req[a]),
                                 {ExistingCustomer, NewCustomerId(a)})
        THEN [result |-> "Committed", rows |-> rows \cup {BookingRow(a, req[a])}]
        ELSE [result |-> "StorageFailure", rows |-> rows]

(* the admissions of order run one at a time, each on the rows the one     *)
(* before left                                                              *)
RECURSIVE Replay(_, _)
Replay(order, rows) ==
  IF order = <<>>
    THEN [results |-> <<>>, rows |-> rows]
    ELSE LET one == RunAlone(Head(order), rows)
             rest == Replay(Tail(order), one.rows)
         IN  [results |-> <<one.result>> \o rest.results, rows |-> rest.rows]

(* the admissions on room r in the order of their lock grants *)
GrantsOn(r) ==
  LET onRoom(a) == req[a].room_id = r
  IN  SelectSeq(grants, onRoom)

(* C15: admissions on one room are linearizable: once every admission has  *)
(* returned, the responses of the admissions on a room and the room's      *)
(* committed bookings are those of running these admissions one at a time  *)
(* in the order of their lock grants, each on the rows left by the one     *)
(* before, when no status is changed from outside meanwhile.                *)
C15_Linearizable ==
  ((\A a \in Adm : pc[a] \in {"idle", "done"}) /\ Untouched)
  => \A r \in Rooms :
       LET order == GrantsOn(r)
           seq == Replay(order, {b \in bookings : b.id \notin Adm})
       IN  /\ \A i \in DOMAIN order : result[order[i]] = seq.results[i]
           /\ {b \in bookings : b.room_id = r} = {b \in seq.rows : b.room_id = r}

(* two admissions on one room have returned, the one granted the lock      *)
(* first committed and the other was rejected; the second request to       *)
(* arrive was the first to be granted                                       *)
C15_Witness ==
  /\ \A a \in Adm : pc[a] = "done"
  /\ Untouched
  /\ Len(grants) = NAdm
  /\ req[grants[1]].room_id = req[grants[2]].room_id
  /\ result[grants[1]] = "Committed" /\ result[grants[2]] = "RoomUnavailable"
  /\ grants[1] > grants[2]

(* a committed hold or confirmed booking on the room of admission a shares *)
(* a night with its window                                                  *)
OverlappingActive(a) ==
  \E b \in bookings :
    /\ b.room_id = req[a].room_id
    /\ b.status \in {"hold", "confirmed"}
    /\ Intersect(b.start_date, b.end_date, req[a].start_date, req[a].end_date)

(* C16: a validated admission is rejected with RoomUnavailable exactly     *)
(* when its conflict check, run while it holds the room's lock, finds a    *)
(* committed hold or confirmed booking on the same room that overlaps its  *)
(* window: the check takes the conflict branch exactly then, the conflict  *)
(* branch replies RoomUnavailable unless the storage fails its ROLLBACK,   *)
(* and no other path replies RoomUnavailable.  Cancelled bookings,         *)
(* bookings on other rooms and bookings that touch the window do not count. *)
C16_RejectedIffConflict ==
  [][ \A a \in Adm :
        /\ (pc[a] = "check" /\ pc'[a] \in {"rollback", "customer"})
             => /\ lock[hashtext(req[a].room_id)] = a
                /\ pc'[a] = "rollback" <=> OverlappingActive(a)
        /\ (pc[a] = "rollback" /\ pc'[a] # "rollback")
             => (result'[a] = "RoomUnavailable" \/ pc'[a] = "catch")
        /\ (result'[a] = "RoomUnavailable" /\ result[a] # "RoomUnavailable")
             => pc[a] = "rollback" ]_vars

(* an admission was rejected for an active booking of another admission on *)
(* its room, while a cancelled booking also overlaps its window             *)
C16_Witness ==
  \E a \in Adm, b \in bookings, c \in bookings :
    /\ result[a] = "RoomUnavailable"
    /\ b.id \in Adm /\ b.room_id = req[a].room_id /\ b.status \in {"hold", "confirmed"}
    /\ Intersect(b.start_date, b.end_date, req[a].start_date, req[a].end_date)
    /\ c.room_id = req[a].room_id /\ c.status = "cancelled"
    /\ Intersect(c.start_date, c.end_date, req[a].start_date, req[a].end_date)

(* the state of the admission state machine that admission a is in *)
Stage(a) ==
  IF result[a] = "RoomUnavailable" THEN "Rejected"
  ELSE IF result[a] = "Committed" THEN "Committed"
  ELSE IF pc[a] = "catch" \/ result[a] = "StorageFailure" THEN "Failed"
  ELSE IF pc[a] \in {"connect", "begin", "lock"} THEN "Requested"
  ELSE IF pc[a] = "check" THEN "LockAcquired"
  ELSE IF pc[a] \in {"rollback", "customer", "booking", "commit"} THEN "ConflictChecked"
  ELSE "None"

StagePath ==
  { <<"None", "Requested">>, <<"Requested", "LockAcquired">>,
    <<"LockAcquired", "ConflictChecked">>, <<"ConflictChecked", "Rejected">>,
    <<"ConflictChecked", "Committed">> }

StageFailure ==
  { <<"Requested", "Failed">>, <<"LockAcquired", "Failed">>, <<"ConflictChecked", "Failed">> }

(* the conflict check runs with the room's lock held, and a row is written *)
(* only after the check found no conflict                                   *)
CheckedUnderLock(a) ==
  /\ Stage(a) \in {"LockAcquired", "ConflictChecked"} => lock[hashtext(req[a].room_id)] = a
  /\ (Stage(a) = "LockAcquired" /\ pc'[a] = "customer") => ~OverlappingActive(a)
  /\ (tx'[a] # tx[a] /\ tx'[a] # NoTx) => pc[a] \in {"customer", "booking"}
  /\ pc'[a] = "customer" => (pc[a] \in {"check", "customer"})

(* C17: an admission only moves along Requested -> LockAcquired ->         *)
(* ConflictChecked -> {Rejected | Committed}: the conflict check is never  *)
(* run before the room lock is held, no customer or booking is written     *)
(* before the check has found no conflict, and every admission that passed *)
(* validation ends in Rejected or Committed.                                *)
C17_AdmissionPath ==
  /\ [][ \A a \in Adm :
            /\ Stage(a)' # Stage(a) => <<Stage(a), Stage(a)'>> \in StagePath
            /\ CheckedUnderLock(a) ]_vars
  /\ \A a \in Adm : (Stage(a) = "Requested") ~> (Stage(a) \in {"Rejected", "Committed"})

(* C17 as the code runs it: besides the moves of the path, an admission    *)
(* moves from Requested, LockAcquired or ConflictChecked to a failed state *)
(* when the storage fails a statement, and every admission that passed     *)
(* validation ends in Rejected, Committed or that state with               *)
(* StorageFailure; the check runs under the lock and no row is written     *)
(* before it has found no conflict.                                         *)
C17_AdmissionPathOrFailure ==
  /\ [][ \A a \in Adm :
            /\ Stage(a)' # Stage(a) => <<Stage(a), Stage(a)'>> \in StagePath \cup StageFailure
            /\ CheckedUnderLock(a) ]_vars
  /\ \A a \in Adm :
       (Stage(a) = "Requested")
         ~> (pc[a] = "done" /\ Stage(a) \in {"Rejected", "Committed", "Failed"})

(* one admission has ended Committed and another, which had been granted   *)
(* its lock, has ended with StorageFailure                                  *)
C17_Witness ==
  \E a \in Adm, o \in Adm :
    /\ pc[a] = "done" /\ Stage(a) = "Committed"
    /\ pc[o] = "done" /\ Stage(o) = "Failed" /\ o \in Range(grants)

(* C18: the availability query for a property and a window from < to       *)
(* returns every room of the property that has no hold or confirmed        *)
(* booking overlapping the window among the committed bookings its second  *)
(* read runs on; rooms whose overlapping bookings are all cancelled, or    *)
(* whose active bookings only touch the window, are listed.                 *)
C18_EveryFreeRoomListed ==
  [][ \A q \in Qry :
        ( /\ qpc[q] = "bookings" /\ qpc'[q] = "done" /\ qresult'[q].code = "Ok"
          /\ qreq[q].from < qreq[q].to )
          => \A r \in Rooms :
               ( /\ RoomProperty(r) = qreq[q].propertyId
                 /\ \A b \in bookings :
                      (b.room_id = r /\ b.status \in {"hold", "confirmed"})
                        => ~Intersect(b.start_date, b.end_date, qreq[q].from, qreq[q].to) )
               => r \in qresult'[q].available ]_vars

(* a query has listed a room that has a cancelled booking overlapping the  *)
(* window and an active booking ending on the window's first day            *)
C18_Witness ==
  \E q \in Qry, b \in bookings, c \in bookings :
    /\ qpc[q] = "done" /\ qresult[q].code = "Ok" /\ qreq[q].from < qreq[q].to
    /\ b.room_id \in qresult[q].available /\ c.room_id = b.room_id
    /\ b.status = "cancelled"
    /\ Intersect(b.start_date, b.end_date, qreq[q].from, qreq[q].to)
    /\ c.status \in {"hold", "confirmed"} /\ c.end_date = qreq[q].from

(* admission a commits in this step *)
Commits(a) == result'[a] = "Committed" /\ result[a] # "Committed"

(* C19: the booking a committed admission creates has status hold when the *)
(* request's hold flag is set and confirmed when it is absent or false,    *)
(* never cancelled, and the status of the response is the status of the    *)
(* row as stored.                                                           *)
C19_StatusAsRequested ==
  [][ \A a \in Adm :
        Commits(a)
          => /\ bookings' \ bookings # {}
             /\ \A b \in bookings' \ bookings :
                  /\ b.status = IF req[a].hold THEN "hold" ELSE "confirmed"
                  /\ b.status # "cancelled"
                  /\ ReplyBody(a, req[a]).status = b.status
                  /\ ReplyBody(a, req[a]).booking_id = b.id ]_vars

(* one admission with the hold flag and one without have committed; their  *)
(* rows are stored as hold and as confirmed                                 *)
C19_Witness ==
  \E a \in Adm, o \in Adm, b \in bookings, c \in bookings :
    /\ result[a] = "Committed" /\ req[a].hold /\ b.id = NewBookingId(a) /\ b.status = "hold"
    /\ result[o] = "Committed" /\ ~req[o].hold /\ c.id = NewBookingId(o)
    /\ c.status = "confirmed"

(* C20: a committed admission adds exactly one booking row, and exactly    *)
(* one customer row when the request carries no customer id and none when  *)
(* it carries one; the new booking references that customer; no committed  *)
(* booking or customer row is modified or deleted, and no other step of    *)
(* the admission changes a committed row.                                   *)
C20_CommitAddsOnlyItsRows ==
  [][ \A a \in Adm :
        /\ Commits(a)
             => /\ bookings \subseteq bookings' /\ customers \subseteq customers'
                /\ Cardinality(bookings' \ bookings) = 1
                /\ Cardinality(customers' \ customers)
                     = IF req[a].customer = InlineCustomer THEN 1 ELSE 0
                /\ \A b \in bookings' \ bookings :
                     /\ b.room_id = req[a].room_id
                     /\ b.start_date = req[a].start_date /\ b.end_date = req[a].end_date
                     /\ IF req[a].customer = InlineCustomer
                          THEN b.customer_id \in customers' \ customers
                          ELSE b.customer_id = req[a].customer /\ b.customer_id \in customers
        /\ (pc'[a] # pc[a] /\ ~Commits(a))
             => (bookings' = bookings /\ customers' = customers) ]_vars

(* one admission has committed with a customer of its own and another with *)
(* the existing customer                                                    *)
C20_Witness ==
  \E a \in Adm, o \in Adm, b \in bookings, c \in bookings :
    /\ result[a] = "Committed" /\ req[a].customer = InlineCustomer
    /\ b.id = NewBookingId(a) /\ b.customer_id = NewCustomerId(a)
    /\ NewCustomerId(a) \in customers
    /\ result[o] = "Committed" /\ req[o].customer = ExistingCustomer
    /\ c.id = NewBookingId(o) /\ c.customer_id = ExistingCustomer
    /\ NewCustomerId(o) \notin customers

====
